---------------------------- MODULE Spec2Model ----------------------------
(***************************************************************************)
(* A model of the enhanced Intel 8080 emulator (emulator_enhanced.cpp,     *)
(* emulator_enhanced.h, 8080emuCPP.h, main.cpp): the interrupt controller, *)
(* the direct-mapped memory cache, the memory bank controller and the      *)
(* execution step of EnhancedCPU8080.                                      *)
(*                                                                         *)
(* Every component has a specification of its own (SpecIC, SpecCache,      *)
(* SpecMBC, SpecRO, SpecCPU, SpecOps, SpecHost); the variables of the      *)
(* other components stay at their constructed values in it.                *)
(***************************************************************************)
EXTENDS Integers, Sequences, FiniteSets, TLC

VARIABLES
    int_queue,        \* InterruptController::int_queue (front = index 1)
    icStamp,          \* history: arrival number of each queued request
    icNext,           \* history: number of requests queued so far
    icReturned,       \* history: arrival numbers getNextInterrupt returned
    icCleared,        \* history: arrival numbers clear() removed
    icRet,            \* outcome of the last InterruptController call
    cache,            \* MemoryCache::cache, line index -> CacheEntry
    memory,           \* the MemoryBase behind the cache and the CPU
    shadow,           \* history: the same accesses on the uncached memory
    cacheRet,         \* outcome of the last MemoryCache call
    banks,            \* MemoryBankController::banks
    currentBank,      \* MemoryBankController::currentBank
    mappings,         \* MemoryBankController::mappings
    mbcRet,           \* outcome of the last MemoryBankController call
    lastWrite,        \* history: the last successful write, until the next write
    mbcOps,           \* history: number of MemoryBankController writes
    issued,           \* history: <<bank, offset>> -> value of the writes issued
    state,            \* State8080: registers, sp, pc, cc, int_enable
    halted,           \* CPU8080: the CPU executed HLT (isHalted)
    interrupt,        \* CPU8080::interrupt: a raised interrupt is pending
    interrupt_code,   \* CPU8080::interrupt_code
    instructionCache, \* EnhancedCPU8080::instructionCache, pc -> CachedInstruction
    cacheFlushCounter,\* EnhancedCPU8080::cacheFlushCounter
    tracingEnabled,   \* EnhancedCPU8080::tracingEnabled
    trace_buffer,     \* InstructionTracer::trace_buffer
    max_entries,      \* InstructionTracer::max_entries
    cpuRet,           \* outcome of the last Emulate8080p call
    cpuSteps,         \* history: number of Emulate8080p calls
    quantum,          \* CPU8080::quantum
    scheduler_timer,  \* CPU8080::scheduler_timer
    systemCall,       \* CPU8080: what isSystemCall() returns
    hostPos,          \* main: where the host loop stands
    debugOption,      \* main: DEBUG, from the command line
    handled,          \* history: handleCall calls since the last step
    trapped,          \* history: the last step left isSystemCall() true
    traceLog,         \* history: every entry handed to addTrace, in order
    sinceFlush,       \* history: Emulate8080p calls since the last flush
    tableByte,        \* the byte last looked up in the tables
    decoded,          \* INSTRUCTION_TABLE[tableByte]
    parityBit         \* PARITY_TABLE[tableByte]

icVars    == <<int_queue, icStamp, icNext, icReturned, icCleared, icRet>>
cacheVars == <<cache, memory, shadow, cacheRet>>
mbcVars   == <<banks, currentBank, mappings, mbcRet, lastWrite, mbcOps,
               issued>>
cpuVars   == <<state, halted, interrupt, interrupt_code, instructionCache,
               cacheFlushCounter, tracingEnabled, trace_buffer, max_entries,
               cpuRet, cpuSteps, quantum, scheduler_timer, systemCall>>
hostVars  == <<hostPos, debugOption, handled, trapped>>
auxVars   == <<traceLog, sinceFlush, tableByte, decoded, parityBit>>
vars      == <<icVars, cacheVars, mbcVars, cpuVars, hostVars, auxVars>>

Word(x) == x % 65536
Byte(x) == x % 256

(***************************************************************************)
(* Bounds of the model.                                                    *)
(***************************************************************************)
MaxQueue == 3
MaxArrivals == 4
MaxWrites == 2
MaxSteps == 5
MaxHostSteps == 9
MaxTraces == 4
MaxPending == 1
MaxRunSteps == 1001

(***************************************************************************)
(* InterruptController                                                     *)
(***************************************************************************)
IntCodes == {207, 255}
Priorities == {0, 1, 2}

NoReq == [code |-> 0, priority |-> 0, pending |-> FALSE]

InterruptRequest(code, priority) ==
    [code |-> code, priority |-> priority, pending |-> TRUE]

hasInterrupt == int_queue # <<>>

ICInit ==
    /\ int_queue = <<>>
    /\ icStamp = <<>>
    /\ icNext = 0
    /\ icReturned = <<>>
    /\ icCleared = {}
    /\ icRet = [op |-> "init", err |-> "none", req |-> NoReq, stamp |-> 0]

\* The request getNextInterrupt hands out: the front of the std::queue.
NextRequestIndex(q) == 1

queueInterrupt(code, priority) ==
    /\ Len(int_queue) < MaxQueue
    /\ icNext < MaxArrivals
    /\ int_queue' = Append(int_queue, InterruptRequest(code, priority))
    /\ icStamp' = Append(icStamp, icNext + 1)
    /\ icNext' = icNext + 1
    /\ icRet' = [op |-> "queue", err |-> "none", req |-> NoReq, stamp |-> 0]
    /\ UNCHANGED <<icReturned, icCleared>>

\* Leaves the element in place.
RemoveAtKeeps(s, i) == s

RemoveAt(s, i) == [k \in 1..(Len(s) - 1) |-> IF k < i THEN s[k] ELSE s[k + 1]]

getNextInterrupt ==
    IF int_queue = <<>>
    THEN /\ icRet' = [op |-> "get", err |-> "INVALID_INTERRUPT",
                      req |-> NoReq, stamp |-> 0]
         /\ UNCHANGED <<int_queue, icStamp, icNext, icReturned, icCleared>>
    ELSE LET i == NextRequestIndex(int_queue) IN
         /\ icRet' = [op |-> "get", err |-> "none",
                      req |-> int_queue[i], stamp |-> icStamp[i]]
         /\ int_queue' = RemoveAt(int_queue, i)
         /\ icStamp' = RemoveAt(icStamp, i)
         /\ icReturned' = Append(icReturned, icStamp[i])
         /\ UNCHANGED <<icNext, icCleared>>

clear ==
    /\ int_queue' = <<>>
    /\ icStamp' = <<>>
    /\ icCleared' = icCleared \cup {icStamp[k] : k \in DOMAIN icStamp}
    /\ icRet' = [op |-> "clear", err |-> "none", req |-> NoReq, stamp |-> 0]
    /\ UNCHANGED <<icNext, icReturned>>

QueueStep == \E code \in IntCodes, priority \in Priorities :
                 queueInterrupt(code, priority)

(***************************************************************************)
(* Memory: a byte store that reads 0 where nothing was stored yet.  Only   *)
(* the addresses a run touches are kept in the function.                   *)
(***************************************************************************)
MemAt(m, a) == IF a \in DOMAIN m THEN m[a] ELSE 0

Store(m, a, v) == [x \in (DOMAIN m) \cup {a} |-> IF x = a THEN v ELSE m[x]]

(***************************************************************************)
(* MemoryCache: direct-mapped, write-back, CACHE_SIZE lines.               *)
(***************************************************************************)
CACHE_SIZE == 256

CacheIndex(address) == address % CACHE_SIZE    \* address & (CACHE_SIZE - 1)

\* 0x0010 and 0x0110 share line 0x10; 0x0011 has line 0x11 to itself.
CacheAddrs == {16, 17, 272}
CacheValues == {1, 2}
CacheLines == {CacheIndex(a) : a \in CacheAddrs}
CacheImage == (16 :> 160 @@ 17 :> 161 @@ 272 :> 162)

InvalidEntry == [address |-> 0, value |-> 0, valid |-> FALSE, dirty |-> FALSE]

CacheConstructed == [i \in CacheLines |-> InvalidEntry]

\* The backing store after a dirty valid entry was written back, else as is.
WriteBack(m, entry) ==
    IF entry.valid /\ entry.dirty THEN Store(m, entry.address, entry.value) ELSE m

\* MemoryCache::read: [value, cache, memory] after the call.
CacheRead(c, m, address) ==
    LET index == CacheIndex(address)
        entry == c[index]
    IN  IF entry.valid /\ entry.address = address
        THEN [value |-> entry.value, cache |-> c, memory |-> m]
        ELSE LET m1 == WriteBack(m, entry)
                 v  == MemAt(m1, address)
             IN  [value |-> v,
                  cache |-> [c EXCEPT ![index] =
                                [address |-> address, value |-> v,
                                 valid |-> TRUE, dirty |-> FALSE]],
                  memory |-> m1]

\* MemoryCache::write: the cache after the call (the backing store is not touched).
CacheWrite(c, address, value) ==
    [c EXCEPT ![CacheIndex(address)] =
        [address |-> address, value |-> value, valid |-> TRUE, dirty |-> TRUE]]

RECURSIVE FlushLines(_, _, _)
FlushLines(c, m, lines) ==
    IF lines = {} THEN [cache |-> c, memory |-> m]
    ELSE LET i == CHOOSE x \in lines : \A y \in lines : x <= y
             e == c[i]
         IN  IF e.valid /\ e.dirty
             THEN FlushLines([c EXCEPT ![i].dirty = FALSE],
                             Store(m, e.address, e.value), lines \ {i})
             ELSE FlushLines(c, m, lines \ {i})

\* MemoryCache::flush: [cache, memory] after the call.
CacheFlush(c, m) == FlushLines(c, m, DOMAIN c)

CacheInit ==
    /\ cache = CacheConstructed
    /\ cacheRet = [op |-> "init", address |-> 0, value |-> 0]

CacheReadStep ==
    \E address \in CacheAddrs :
        LET r == CacheRead(cache, memory, address) IN
        /\ cache' = r.cache
        /\ memory' = r.memory
        /\ cacheRet' = [op |-> "read", address |-> address, value |-> r.value]
        /\ UNCHANGED shadow

CacheWriteStep ==
    \E address \in CacheAddrs, value \in CacheValues :
        /\ cache' = CacheWrite(cache, address, value)
        /\ shadow' = [shadow EXCEPT ![address] = value]
        /\ cacheRet' = [op |-> "write", address |-> address, value |-> value]
        /\ UNCHANGED memory

CacheFlushStep ==
    LET r == CacheFlush(cache, memory) IN
    /\ cache' = r.cache
    /\ memory' = r.memory
    /\ cacheRet' = [op |-> "flush", address |-> 0, value |-> 0]
    /\ UNCHANGED shadow

(***************************************************************************)
(* MemoryBankController: EnhancedCPU8080 constructs it as                  *)
(* memoryBanking(4, 0x4000).  A bank is zero-filled by make_unique.        *)
(***************************************************************************)
NumBanks == 4
BankSize == 16384

SwitchArgs == {0, 1, 4}                       \* 4 is no bank
MapBankArgs == {1, 4}
MapBases == {0, 8192, 16384, 49151, 49152}
MBCAddrs == {0, 8192, 49152}
MBCValues == {1, 2}

BankMapping(bank, address) ==
    [bank |-> bank, baseAddr |-> address, size |-> Word(BankSize),
     readOnly |-> FALSE]

BanksConstructed == [b \in 0..(NumBanks - 1) |-> <<>>]

BankAt(bs, bank, offset) == MemAt(bs[bank], offset)

\* Mutant of BankStore: the write is held back and never reaches the bank.
BankStoreHeldBack(bs, bank, offset, value) == bs

BankStore(bs, bank, offset, value) ==
    [bs EXCEPT ![bank] = Store(bs[bank], offset, value)]

\* The range test of read and write: the mapping holds the address.
InMapping(mapping, address) ==
    /\ address >= mapping.baseAddr
    /\ address < mapping.baseAddr + mapping.size

\* Mutant of MappingOverlap: only the start of the new range is tested.
MappingOverlapStartOnly(mapping, address) ==
    /\ address >= mapping.baseAddr
    /\ address < mapping.baseAddr + mapping.size

\* The overlap test of mapMemory against one existing mapping.
MappingOverlap(mapping, address) ==
    \/ /\ address >= mapping.baseAddr
       /\ address < mapping.baseAddr + mapping.size
    \/ /\ address + BankSize > mapping.baseAddr
       /\ address + BankSize <= mapping.baseAddr + mapping.size

\* The validation of the address range in mapMemory.
ExceedsAddressSpace(address) == address + BankSize > 65535

\* Mutant of MapMemory: the mapping is appended before the address range is
\* validated, and stays in the table when the validation fails.
MapMemoryAppendsFirst(ms, address, bank) ==
    IF bank >= NumBanks
    THEN [err |-> "MEMORY_ACCESS_VIOLATION", mappings |-> ms]
    ELSE IF \E i \in 1..Len(ms) : MappingOverlap(ms[i], address)
    THEN [err |-> "MEMORY_ACCESS_VIOLATION", mappings |-> ms]
    ELSE IF ExceedsAddressSpace(address)
    THEN [err |-> "MEMORY_ACCESS_VIOLATION",
          mappings |-> Append(ms, BankMapping(bank, address))]
    ELSE [err |-> "none", mappings |-> Append(ms, BankMapping(bank, address))]

\* MemoryBankController::mapMemory: [err, mappings] after the call.
MapMemory(ms, address, bank) ==
    IF bank >= NumBanks
    THEN [err |-> "MEMORY_ACCESS_VIOLATION", mappings |-> ms]
    ELSE IF \E i \in 1..Len(ms) : MappingOverlap(ms[i], address)
    THEN [err |-> "MEMORY_ACCESS_VIOLATION", mappings |-> ms]
    ELSE IF ExceedsAddressSpace(address)
    THEN [err |-> "MEMORY_ACCESS_VIOLATION", mappings |-> ms]
    ELSE [err |-> "none", mappings |-> Append(ms, BankMapping(bank, address))]

\* The loop over the mappings in read and write: the index of the first
\* mapping, in insertion order, that holds the address; 0 when none does.
FindMapping(ms, address) ==
    IF \E i \in 1..Len(ms) : InMapping(ms[i], address)
    THEN CHOOSE i \in 1..Len(ms) :
             /\ InMapping(ms[i], address)
             /\ \A j \in 1..(i - 1) : ~InMapping(ms[j], address)
    ELSE 0

\* Mutant of MBCRead: a mapped address is read from the current bank.
MBCReadCurrentBank(ms, bs, cur, address) ==
    LET i == FindMapping(ms, address) IN
    IF i # 0
    THEN [err |-> "none",
          value |-> BankAt(bs, cur, Word(address - ms[i].baseAddr))]
    ELSE IF address >= BankSize
         THEN [err |-> "MEMORY_ACCESS_VIOLATION", value |-> 0]
         ELSE [err |-> "none", value |-> BankAt(bs, cur, address)]

\* MemoryBankController::read: [err, value].
MBCRead(ms, bs, cur, address) ==
    LET i == FindMapping(ms, address) IN
    IF i # 0
    THEN LET bankOffset == Word(address - ms[i].baseAddr) IN
         IF bankOffset >= BankSize
         THEN [err |-> "MEMORY_ACCESS_VIOLATION", value |-> 0]
         ELSE [err |-> "none", value |-> BankAt(bs, ms[i].bank, bankOffset)]
    ELSE IF address >= BankSize
         THEN [err |-> "MEMORY_ACCESS_VIOLATION", value |-> 0]
         ELSE [err |-> "none", value |-> BankAt(bs, cur, address)]

\* Mutant of MBCWrite: the base address is not subtracted from a mapped address.
MBCWriteNoOffset(ms, bs, cur, address, value) ==
    LET i == FindMapping(ms, address) IN
    IF i # 0
    THEN IF ms[i].readOnly
         THEN [err |-> "MEMORY_ACCESS_VIOLATION", banks |-> bs]
         ELSE [err |-> "none",
               banks |-> BankStore(bs, ms[i].bank, address, value)]
    ELSE IF address >= BankSize
         THEN [err |-> "MEMORY_ACCESS_VIOLATION", banks |-> bs]
         ELSE [err |-> "none", banks |-> BankStore(bs, cur, address, value)]

\* Mutant of MBCWrite: the readOnly flag of the mapping is not looked at.
MBCWriteIgnoresReadOnly(ms, bs, cur, address, value) ==
    LET i == FindMapping(ms, address) IN
    IF i # 0
    THEN [err |-> "none",
          banks |-> BankStore(bs, ms[i].bank,
                              Word(address - ms[i].baseAddr), value)]
    ELSE IF address >= BankSize
         THEN [err |-> "MEMORY_ACCESS_VIOLATION", banks |-> bs]
         ELSE [err |-> "none", banks |-> BankStore(bs, cur, address, value)]

\* MemoryBankController::write: [err, banks] after the call.
MBCWrite(ms, bs, cur, address, value) ==
    LET i == FindMapping(ms, address) IN
    IF i # 0
    THEN IF ms[i].readOnly
         THEN [err |-> "MEMORY_ACCESS_VIOLATION", banks |-> bs]
         ELSE LET bankOffset == Word(address - ms[i].baseAddr) IN
              IF bankOffset >= BankSize
              THEN [err |-> "MEMORY_ACCESS_VIOLATION", banks |-> bs]
              ELSE [err |-> "none",
                    banks |-> BankStore(bs, ms[i].bank, bankOffset, value)]
    ELSE IF address >= BankSize
         THEN [err |-> "MEMORY_ACCESS_VIOLATION", banks |-> bs]
         ELSE [err |-> "none", banks |-> BankStore(bs, cur, address, value)]

\* MemoryBankController::switchBank: [err, currentBank] after the call.
SwitchBank(cur, bank) ==
    IF bank >= NumBanks
    THEN [err |-> "MEMORY_ACCESS_VIOLATION", currentBank |-> cur]
    ELSE [err |-> "none", currentBank |-> bank]

\* The bank and offset a write to address is issued to: those of the mapping
\* that holds the address, else the bank current at the time of the write.
IssuedCell(ms, cur, address) ==
    LET i == FindMapping(ms, address) IN
    IF i # 0 THEN <<ms[i].bank, Word(address - ms[i].baseAddr)>>
    ELSE <<cur, address>>

NoWrite == [valid |-> FALSE, address |-> 0, value |-> 0]

MBCInit ==
    /\ banks = BanksConstructed
    /\ currentBank = 0
    /\ mappings = <<>>
    /\ mbcRet = [op |-> "init", err |-> "none", address |-> 0, bank |-> 0,
                 value |-> 0]
    /\ lastWrite = NoWrite
    /\ mbcOps = 0
    /\ issued = <<>>

mapMemoryStep ==
    \E address \in MapBases, bank \in MapBankArgs :
        LET r == MapMemory(mappings, address, bank) IN
        /\ mappings' = r.mappings
        /\ mbcRet' = [op |-> "mapMemory", err |-> r.err, address |-> address,
                      bank |-> bank, value |-> 0]
        /\ UNCHANGED <<banks, currentBank, lastWrite, mbcOps, issued>>

switchBankStep ==
    \E bank \in SwitchArgs :
        LET r == SwitchBank(currentBank, bank) IN
        /\ currentBank' = r.currentBank
        /\ mbcRet' = [op |-> "switchBank", err |-> r.err, address |-> 0,
                      bank |-> bank, value |-> 0]
        /\ UNCHANGED <<banks, mappings, lastWrite, mbcOps, issued>>

readStep ==
    \E address \in MBCAddrs :
        LET r == MBCRead(mappings, banks, currentBank, address) IN
        /\ mbcRet' = [op |-> "read", err |-> r.err, address |-> address,
                      bank |-> 0, value |-> r.value]
        /\ UNCHANGED <<banks, currentBank, mappings, lastWrite, mbcOps,
                       issued>>

writeStep ==
    \E address \in MBCAddrs, value \in MBCValues :
        LET r == MBCWrite(mappings, banks, currentBank, address, value) IN
        /\ mbcOps < MaxWrites
        /\ mbcOps' = mbcOps + 1
        /\ banks' = r.banks
        /\ mbcRet' = [op |-> "write", err |-> r.err, address |-> address,
                      bank |-> 0, value |-> value]
        /\ lastWrite' = IF r.err # "none" THEN lastWrite
                        ELSE IF FindMapping(mappings, address) # 0
                        THEN [valid |-> TRUE, address |-> address,
                              value |-> value]
                        ELSE NoWrite
        /\ issued' = IF r.err # "none" THEN issued
                     ELSE Store(issued, IssuedCell(mappings, currentBank, address),
                                value)
        /\ UNCHANGED <<currentBank, mappings>>

(***************************************************************************)
(* INSTRUCTION_TABLE (createInstructionTable): length, base cycles,        *)
(* affects_flags, memory_access of every opcode.                           *)
(***************************************************************************)
DecodedInstruction(length, cycles, affects_flags, memory_access) ==
    [length |-> length, cycles |-> cycles, affects_flags |-> affects_flags,
     memory_access |-> memory_access]

\* The entries createInstructionTable sets one by one.
TableEntries ==
       0 :> DecodedInstruction(1, 4, FALSE, FALSE)   \* 00 NOP
    @@ 1 :> DecodedInstruction(3, 10, FALSE, FALSE)   \* 01 LXI B,word
    @@ 2 :> DecodedInstruction(1, 7, FALSE, TRUE)    \* 02 STAX B
    @@ 3 :> DecodedInstruction(1, 5, FALSE, FALSE)   \* 03 INX B
    @@ 4 :> DecodedInstruction(1, 5, TRUE, FALSE)    \* 04 INR B
    @@ 5 :> DecodedInstruction(1, 5, TRUE, FALSE)    \* 05 DCR B
    @@ 6 :> DecodedInstruction(2, 7, FALSE, FALSE)   \* 06 MVI B,byte
    @@ 7 :> DecodedInstruction(1, 4, TRUE, FALSE)    \* 07 RLC
    @@ 8 :> DecodedInstruction(1, 4, FALSE, FALSE)   \* 08 NOP
    @@ 9 :> DecodedInstruction(1, 10, FALSE, FALSE)   \* 09 DAD B
    @@ 10 :> DecodedInstruction(1, 7, FALSE, TRUE)    \* 0A LDAX B
    @@ 11 :> DecodedInstruction(1, 5, FALSE, FALSE)   \* 0B DCX B
    @@ 12 :> DecodedInstruction(1, 5, TRUE, FALSE)    \* 0C INR C
    @@ 13 :> DecodedInstruction(1, 5, TRUE, FALSE)    \* 0D DCR C
    @@ 14 :> DecodedInstruction(2, 7, FALSE, FALSE)   \* 0E MVI C,byte
    @@ 15 :> DecodedInstruction(1, 4, TRUE, FALSE)    \* 0F RRC
    @@ 17 :> DecodedInstruction(3, 10, FALSE, FALSE)   \* 11 LXI D,word
    @@ 18 :> DecodedInstruction(1, 7, FALSE, TRUE)    \* 12 STAX D
    @@ 19 :> DecodedInstruction(1, 5, FALSE, FALSE)   \* 13 INX D
    @@ 20 :> DecodedInstruction(1, 5, TRUE, FALSE)    \* 14 INR D
    @@ 21 :> DecodedInstruction(1, 5, TRUE, FALSE)    \* 15 DCR D
    @@ 22 :> DecodedInstruction(2, 7, FALSE, FALSE)   \* 16 MVI D,byte
    @@ 23 :> DecodedInstruction(1, 4, TRUE, FALSE)    \* 17 RAL
    @@ 33 :> DecodedInstruction(3, 10, FALSE, FALSE)   \* 21 LXI H,word
    @@ 34 :> DecodedInstruction(3, 16, FALSE, TRUE)    \* 22 SHLD addr
    @@ 35 :> DecodedInstruction(1, 5, FALSE, FALSE)   \* 23 INX H
    @@ 36 :> DecodedInstruction(1, 5, TRUE, FALSE)    \* 24 INR H
    @@ 37 :> DecodedInstruction(1, 5, TRUE, FALSE)    \* 25 DCR H
    @@ 38 :> DecodedInstruction(2, 7, FALSE, FALSE)   \* 26 MVI H,byte
    @@ 39 :> DecodedInstruction(1, 4, TRUE, FALSE)    \* 27 DAA
    @@ 49 :> DecodedInstruction(3, 10, FALSE, FALSE)   \* 31 LXI SP,word
    @@ 50 :> DecodedInstruction(3, 13, FALSE, TRUE)    \* 32 STA addr
    @@ 51 :> DecodedInstruction(1, 5, FALSE, FALSE)   \* 33 INX SP
    @@ 52 :> DecodedInstruction(1, 10, TRUE, TRUE)     \* 34 INR M
    @@ 53 :> DecodedInstruction(1, 10, TRUE, TRUE)     \* 35 DCR M
    @@ 54 :> DecodedInstruction(2, 10, FALSE, TRUE)    \* 36 MVI M,byte
    @@ 55 :> DecodedInstruction(1, 4, TRUE, FALSE)    \* 37 STC
    @@ 192 :> DecodedInstruction(1, 11, FALSE, FALSE)   \* C0 RNZ
    @@ 193 :> DecodedInstruction(1, 10, FALSE, FALSE)   \* C1 POP B
    @@ 194 :> DecodedInstruction(3, 10, FALSE, FALSE)   \* C2 JNZ addr
    @@ 195 :> DecodedInstruction(3, 10, FALSE, FALSE)   \* C3 JMP addr
    @@ 196 :> DecodedInstruction(3, 17, FALSE, FALSE)   \* C4 CNZ addr
    @@ 197 :> DecodedInstruction(1, 11, FALSE, FALSE)   \* C5 PUSH B
    @@ 198 :> DecodedInstruction(2, 7, TRUE, FALSE)    \* C6 ADI byte
    @@ 199 :> DecodedInstruction(1, 11, FALSE, FALSE)   \* C7 RST 0
    @@ 200 :> DecodedInstruction(1, 11, FALSE, FALSE)   \* C8 RZ
    @@ 201 :> DecodedInstruction(1, 10, FALSE, FALSE)   \* C9 RET
    @@ 202 :> DecodedInstruction(3, 10, FALSE, FALSE)   \* CA JZ addr
    @@ 204 :> DecodedInstruction(3, 17, FALSE, FALSE)   \* CC CZ addr
    @@ 205 :> DecodedInstruction(3, 17, FALSE, FALSE)   \* CD CALL addr
    @@ 206 :> DecodedInstruction(2, 7, TRUE, FALSE)    \* CE ACI byte
    @@ 207 :> DecodedInstruction(1, 11, FALSE, FALSE)   \* CF RST 1
    @@ 211 :> DecodedInstruction(2, 10, FALSE, FALSE)   \* D3 OUT port
    @@ 219 :> DecodedInstruction(2, 10, FALSE, FALSE)   \* DB IN port
    @@ 227 :> DecodedInstruction(1, 18, FALSE, FALSE)   \* E3 XTHL
    @@ 233 :> DecodedInstruction(1, 5, FALSE, FALSE)   \* E9 PCHL
    @@ 235 :> DecodedInstruction(1, 5, FALSE, FALSE)   \* EB XCHG
    @@ 243 :> DecodedInstruction(1, 4, FALSE, FALSE)   \* F3 DI
    @@ 251 :> DecodedInstruction(1, 4, FALSE, FALSE)   \* FB EI

\* Mutant of InstructionTable: no opcode of 0x40..0x7F is marked as a memory
\* access, HLT (0x76) included.
InstructionTableMovPlain(op) ==
    IF op \in 64..127
    THEN DecodedInstruction(1, 5, FALSE, FALSE)
    ELSE IF op \in 128..191
    THEN LET isMemoryOp == (op % 8 = 6)
         IN  DecodedInstruction(1, IF isMemoryOp THEN 7 ELSE 4, TRUE, isMemoryOp)
    ELSE IF op \in DOMAIN TableEntries
    THEN TableEntries[op]
    ELSE DecodedInstruction(1, 4, FALSE, FALSE)

\* INSTRUCTION_TABLE[op]: the default entry, the loops over 0x40..0x7F and
\* 0x80..0xBF, and the entries set one by one.
InstructionTable(op) ==
    IF op \in 64..127
    THEN LET isMemoryOp == (op % 8 = 6) \/ (op % 64 = 54)
         IN  DecodedInstruction(1, IF isMemoryOp THEN 7 ELSE 5, FALSE, isMemoryOp)
    ELSE IF op \in 128..191
    THEN LET isMemoryOp == (op % 8 = 6)
         IN  DecodedInstruction(1, IF isMemoryOp THEN 7 ELSE 4, TRUE, isMemoryOp)
    ELSE IF op \in DOMAIN TableEntries
    THEN TableEntries[op]
    ELSE DecodedInstruction(1, 4, FALSE, FALSE)

(***************************************************************************)
(* InstructionTracer                                                       *)
(***************************************************************************)
TraceEntry(pc, opcode, st, cycle) ==
    [pc |-> pc, opcode |-> opcode, state |-> st, cycle |-> cycle]

\* InstructionTracer::addTrace: the buffer after the call.
addTrace(buffer, max, pc, opcode, st, cycle) ==
    LET pushed == Append(buffer, TraceEntry(pc, opcode, st, cycle))
    IN  IF Len(pushed) > max THEN Tail(pushed) ELSE pushed

(***************************************************************************)
(* CPU8080: the base interpreter.  Its step function is not among the      *)
(* sources at hand; it is modelled from the specification (delivery        *)
(* protocol 4.5, step contract 4.7, decoder 4.4) and from what             *)
(* EmulatorTest::testInterrupts expects of it.  Only the opcodes the       *)
(* programs below use are given an execution.                              *)
(***************************************************************************)
ConditionCodes == [cy |-> 0, p |-> 0, ac |-> 0, z |-> 0, s |-> 0]

\* State8080{}: every field zero.
State8080 ==
    [a |-> 0, b |-> 0, c |-> 0, d |-> 0, e |-> 0, h |-> 0, l |-> 0,
     sp |-> 0, pc |-> 0, cc |-> ConditionCodes, int_enable |-> 0]

NOP == 0
CMA == 47
HLT == 118
JMP == 195
DAA == 39
STA == 50
LDA == 58
ADD_B == 128
SUB_B == 144
POP_B == 193
PUSH_B == 197
RET == 201
CALL == 205
RST_7 == 255       \* the trap opcode (4.6)

\* PARITY_TABLE[256], as written in the source (index 1 is byte 0).
PARITY_TABLE ==
    <<
       1, 0, 0, 1, 0, 1, 1, 0, 0, 1, 1, 0, 1, 0, 0, 1,
       0, 1, 1, 0, 1, 0, 0, 1, 1, 0, 0, 1, 0, 1, 1, 0,
       0, 1, 1, 0, 1, 0, 0, 1, 1, 0, 0, 1, 0, 1, 1, 0,
       1, 0, 0, 1, 0, 1, 1, 0, 0, 1, 1, 0, 1, 0, 0, 1,
       0, 1, 1, 0, 1, 0, 0, 1, 1, 0, 0, 1, 0, 1, 1, 0,
       1, 0, 0, 1, 0, 1, 1, 0, 0, 1, 1, 0, 1, 0, 0, 1,
       1, 0, 0, 1, 0, 1, 1, 0, 0, 1, 1, 0, 1, 0, 0, 1,
       0, 1, 1, 0, 1, 0, 0, 1, 1, 0, 0, 1, 0, 1, 1, 0,
       0, 1, 1, 0, 1, 0, 0, 1, 1, 0, 0, 1, 0, 1, 1, 0,
       1, 0, 0, 1, 0, 1, 1, 0, 0, 1, 1, 0, 1, 0, 0, 1,
       1, 0, 0, 1, 0, 1, 1, 0, 0, 1, 1, 0, 1, 0, 0, 1,
       0, 1, 1, 0, 1, 0, 0, 1, 1, 0, 0, 1, 0, 1, 1, 0,
       1, 0, 0, 1, 0, 1, 1, 0, 0, 1, 1, 0, 1, 0, 0, 1,
       0, 1, 1, 0, 1, 0, 0, 1, 1, 0, 0, 1, 0, 1, 1, 0,
       0, 1, 1, 0, 1, 0, 0, 1, 1, 0, 0, 1, 0, 1, 1, 0,
       1, 0, 0, 1, 0, 1, 1, 0, 0, 1, 1, 0, 1, 0, 0, 1
    >>

\* Mutant of Parity: bit 7 of the byte is left out of the lookup.
ParityOfLowBits(r) == PARITY_TABLE[(r % 128) + 1]

Parity(r) == PARITY_TABLE[r + 1]

\* Z, S and P of a result byte (4.3).
FlagsZSP(cc, r) ==
    [cc EXCEPT !.z = IF r = 0 THEN 1 ELSE 0, !.s = r \div 128, !.p = Parity(r)]

\* ADD r: CY is the carry out of bit 7 of the 9-bit sum, AC the carry out of
\* bit 3 of the nibble-wise sum.
Add(st, r) ==
    LET sum == st.a + r
        cc1 == [st.cc EXCEPT !.cy = sum \div 256,
                             !.ac = ((st.a % 16) + (r % 16)) \div 16]
    IN  [st EXCEPT !.a = sum % 256, !.cc = FlagsZSP(cc1, sum % 256)]

\* Mutant of Sub: CY is the carry of the two's complement addition, the
\* inverse of the borrow.
SubCarryNotBorrow(st, r) ==
    LET diff == (st.a + 256 - r) % 256
        cc1 == [st.cc EXCEPT !.cy = IF st.a < r THEN 0 ELSE 1,
                             !.ac = ((st.a % 16) + (15 - (r % 16)) + 1) \div 16]
    IN  [st EXCEPT !.a = diff, !.cc = FlagsZSP(cc1, diff)]

\* SUB r: CY is the borrow out; AC is the carry out of bit 3 of
\* A + ~r + 1 (scenario 8.2: A = 0x00, r = 0x01 leaves AC = 0).
Sub(st, r) ==
    LET diff == (st.a + 256 - r) % 256
        cc1 == [st.cc EXCEPT !.cy = IF st.a < r THEN 1 ELSE 0,
                             !.ac = ((st.a % 16) + (15 - (r % 16)) + 1) \div 16]
    IN  [st EXCEPT !.a = diff, !.cc = FlagsZSP(cc1, diff)]

\* Mutant of DecimalAdjust: the second adjustment looks at the high nibble
\* only and leaves CY as it was.
DecimalAdjustNoCarry(st) ==
    LET lowAdj  == (st.a % 16 > 9) \/ st.cc.ac = 1
        a1      == IF lowAdj THEN (st.a + 6) % 256 ELSE st.a
        ac1     == IF lowAdj THEN ((st.a % 16) + 6) \div 16 ELSE st.cc.ac
        highAdj == (a1 \div 16) * 16 > 144
        a2      == IF highAdj THEN (a1 + 96) % 256 ELSE a1
        cc1     == [st.cc EXCEPT !.ac = ac1]
    IN  [st EXCEPT !.a = a2, !.cc = FlagsZSP(cc1, a2)]

\* DAA (4.3): add 0x06 when the low nibble is above 9 or AC is set, then add
\* 0x60 when the high nibble is above 9 or CY is set; CY is set, never
\* cleared; S, Z, P from the final A.
DecimalAdjust(st) ==
    LET lowAdj  == (st.a % 16 > 9) \/ st.cc.ac = 1
        a1      == IF lowAdj THEN (st.a + 6) % 256 ELSE st.a
        ac1     == IF lowAdj THEN ((st.a % 16) + 6) \div 16 ELSE st.cc.ac
        highAdj == ((a1 \div 16) * 16 > 144) \/ st.cc.cy = 1
        a2      == IF highAdj THEN (a1 + 96) % 256 ELSE a1
        cc1     == [st.cc EXCEPT !.ac = ac1,
                                 !.cy = IF highAdj THEN 1 ELSE st.cc.cy]
    IN  [st EXCEPT !.a = a2, !.cc = FlagsZSP(cc1, a2)]

\* The 16-bit operand after the opcode at PC, low byte first.
Operand16(st, mem) ==
    MemAt(mem, Word(st.pc + 1)) + 256 * MemAt(mem, Word(st.pc + 2))

\* Push a 16-bit value: high byte at SP-1, low byte at SP-2.
Push16(mem, sp, v) ==
    Store(Store(mem, Word(sp - 1 + 65536), v \div 256),
          Word(sp - 2 + 65536), v % 256)

\* The 16-bit value on top of the stack.
Top16(mem, sp) == MemAt(mem, sp) + 256 * MemAt(mem, Word(sp + 1))

\* What one base step yields.
StepResult(st, mem, hl, intr, cycles, path) ==
    [state |-> st, memory |-> mem, halted |-> hl, interrupt |-> intr,
     cycles |-> cycles, path |-> path]

\* The entry address of the vector an interrupt code names: RST n, opcode
\* 0xC7 | (n << 3), enters at 8 * n; testInterrupts raises 0x08 and 0x10 and
\* expects PC = 0x0008 and 0x0010.
VectorEntry(code) == ((code \div 8) % 8) * 8        \* code & 0x38

\* Mutant of AcceptInterrupt: the acknowledge leaves interrupts enabled and
\* the CPU halted.
AcceptInterruptNoAck(st, mem, hl, code) ==
    LET sp2 == Word(st.sp - 2 + 65536)
    IN  StepResult([st EXCEPT !.sp = sp2, !.pc = VectorEntry(code)],
                   Store(Store(mem, Word(st.sp - 1 + 65536), st.pc \div 256),
                         sp2, st.pc % 256),
                   hl, 0, 11, "accept")

\* Delivery (4.5, steps 3 to 5): clear interrupt enable; if the CPU was
\* halted, clear halted and advance PC by one; push PC, high byte at SP-1 and
\* low byte at SP-2, and enter the vector.
AcceptInterrupt(st, mem, hl, code) ==
    LET ret == IF hl THEN Word(st.pc + 1) ELSE st.pc
        sp2 == Word(st.sp - 2 + 65536)
    IN  StepResult([st EXCEPT !.int_enable = 0, !.sp = sp2,
                              !.pc = VectorEntry(code)],
                   Store(Store(mem, Word(st.sp - 1 + 65536), ret \div 256),
                         sp2, ret % 256),
                   FALSE, 0, 11, "accept")

\* Fetch and execute the instruction at PC (4.7 (b)).
Execute(st, mem, intr) ==
    LET opcode == MemAt(mem, st.pc) IN
    CASE opcode = NOP ->
           StepResult([st EXCEPT !.pc = Word(st.pc + 1)], mem, FALSE, intr, 4, "exec")
      [] opcode = CMA ->
           StepResult([st EXCEPT !.a = 255 - st.a, !.pc = Word(st.pc + 1)],
                      mem, FALSE, intr, 4, "exec")
      [] opcode = JMP ->
           StepResult([st EXCEPT !.pc = MemAt(mem, Word(st.pc + 1))
                                        + 256 * MemAt(mem, Word(st.pc + 2))],
                      mem, FALSE, intr, 10, "exec")
      [] opcode = HLT ->
           StepResult(st, mem, TRUE, intr, 7, "exec")
      [] opcode = ADD_B ->
           StepResult([Add(st, st.b) EXCEPT !.pc = Word(st.pc + 1)],
                      mem, FALSE, intr, 4, "exec")
      [] opcode = SUB_B ->
           StepResult([Sub(st, st.b) EXCEPT !.pc = Word(st.pc + 1)],
                      mem, FALSE, intr, 4, "exec")
      [] opcode = DAA ->
           StepResult([DecimalAdjust(st) EXCEPT !.pc = Word(st.pc + 1)],
                      mem, FALSE, intr, 4, "exec")
      [] opcode = LDA ->
           StepResult([st EXCEPT !.a = MemAt(mem, Operand16(st, mem)),
                                 !.pc = Word(st.pc + 3)],
                      mem, FALSE, intr, 13, "exec")
      [] opcode = STA ->
           StepResult([st EXCEPT !.pc = Word(st.pc + 3)],
                      Store(mem, Operand16(st, mem), st.a),
                      FALSE, intr, 13, "exec")
      [] opcode = PUSH_B ->
           StepResult([st EXCEPT !.sp = Word(st.sp - 2 + 65536),
                                 !.pc = Word(st.pc + 1)],
                      Push16(mem, st.sp, 256 * st.b + st.c),
                      FALSE, intr, 11, "exec")
      [] opcode = POP_B ->
           StepResult([st EXCEPT !.c = MemAt(mem, st.sp),
                                 !.b = MemAt(mem, Word(st.sp + 1)),
                                 !.sp = Word(st.sp + 2),
                                 !.pc = Word(st.pc + 1)],
                      mem, FALSE, intr, 10, "exec")
      [] opcode = CALL ->
           StepResult([st EXCEPT !.sp = Word(st.sp - 2 + 65536),
                                 !.pc = Operand16(st, mem)],
                      Push16(mem, st.sp, Word(st.pc + 3)),
                      FALSE, intr, 17, "exec")
      [] opcode = RET ->
           StepResult([st EXCEPT !.pc = Top16(mem, st.sp),
                                 !.sp = Word(st.sp + 2)],
                      mem, FALSE, intr, 10, "exec")
      [] opcode = RST_7 ->
           StepResult([st EXCEPT !.sp = Word(st.sp - 2 + 65536),
                                 !.pc = 56],
                      Push16(mem, st.sp, Word(st.pc + 1)),
                      FALSE, intr, 11, "exec")
      [] OTHER ->
           StepResult(st, mem, FALSE, intr, 0, "INVALID_OPCODE")

\* CPU8080::Emulate8080p: accept a pending interrupt when interrupts are
\* enabled; a halted CPU otherwise stays where it is; else execute at PC.
BaseEmulate8080p(st, mem, hl, intr, code) ==
    IF st.int_enable = 1 /\ intr = 1
    THEN AcceptInterrupt(st, mem, hl, code)
    ELSE IF hl
    THEN StepResult(st, mem, TRUE, intr, 7, "halted")
    ELSE Execute(st, mem, intr)

\* The scheduler hook (4.5): the cycles of the step are added to the
\* running counter; when it reaches the quantum the scheduler vector is
\* raised and the counter reset.
SchedulerVector == 207

SchedulerHook(intr, code, timer, q, cycles) ==
    IF timer + cycles >= q
    THEN [interrupt |-> 1, interrupt_code |-> SchedulerVector,
          scheduler_timer |-> 0]
    ELSE [interrupt |-> intr, interrupt_code |-> code,
          scheduler_timer |-> timer + cycles]

\* CPU8080::isSystemCall after a step (4.6): the step executed the trap
\* opcode.
TrapExecuted(r, st, mem) == r.path = "exec" /\ MemAt(mem, st.pc) = RST_7

(***************************************************************************)
(* EnhancedCPU8080                                                         *)
(***************************************************************************)
CachedInstruction(length, cycles, affects_flags, st) ==
    [length |-> length, cycles |-> cycles, affects_flags |-> affects_flags,
     result_a |-> st.a, result_b |-> st.b, result_c |-> st.c,
     result_d |-> st.d, result_e |-> st.e, result_h |-> st.h,
     result_l |-> st.l]

InstructionCacheLimit == 1024

\* The test in front of the fast path: no debug, an entry stored under PC
\* that does not affect flags, and the opcode at PC has no memory access.
FastPath(st, mem, ic, debug) ==
    /\ debug = 0
    /\ st.pc \in DOMAIN ic
    /\ ~ic[st.pc].affects_flags
    /\ ~InstructionTable(MemAt(mem, st.pc)).memory_access

\* The fast path: the cached register results are applied and PC moves on
\* by the cached length.
ApplyCached(st, cached) ==
    [st EXCEPT !.a = cached.result_a, !.b = cached.result_b,
               !.c = cached.result_c, !.d = cached.result_d,
               !.e = cached.result_e, !.h = cached.result_h,
               !.l = cached.result_l,
               !.pc = Word(st.pc + cached.length)]

\* The entry stored after a normal execution, and the key it is stored
\* under: the PC after the instruction less the table's length of the byte
\* at the address the step fetched from.
CacheKey(pcAfter, length) == Word(pcAfter - length + 65536)

CacheResult(ic, opcode, cycles, stAfter) ==
    LET length == InstructionTable(opcode).length
        key == CacheKey(stAfter.pc, length)
    IN  [x \in (DOMAIN ic) \cup {key} |->
            IF x = key
            THEN CachedInstruction(length, Byte(cycles),
                                   InstructionTable(opcode).affects_flags, stAfter)
            ELSE ic[x]]

\* EnhancedCPU8080::Emulate8080p(debug).  Profiling is off (constructor) and
\* only counts executions; it is left out.
Emulate8080p(debug) ==
    IF FastPath(state, memory, instructionCache, debug)
    THEN LET cached == instructionCache[state.pc] IN
         /\ state' = ApplyCached(state, cached)
         /\ cpuRet' = [path |-> "fast", cycles |-> cached.cycles,
                       debug |-> debug, wasHalted |-> halted]
         /\ UNCHANGED <<memory, cache, halted, interrupt, interrupt_code,
                        instructionCache, cacheFlushCounter, trace_buffer,
                        scheduler_timer, systemCall>>
    ELSE LET r == BaseEmulate8080p(state, memory, halted, interrupt,
                                   interrupt_code)
             opcode == MemAt(r.memory, state.pc)
             faulted == r.path = "INVALID_OPCODE"
             count == cacheFlushCounter + 1
             flushed == CacheFlush(cache, r.memory)
             hook == SchedulerHook(r.interrupt, interrupt_code,
                                   scheduler_timer, quantum, r.cycles)
         IN  /\ state' = r.state
             /\ halted' = r.halted
             /\ interrupt' = hook.interrupt
             /\ interrupt_code' = hook.interrupt_code
             /\ scheduler_timer' = hook.scheduler_timer
             /\ systemCall' = TrapExecuted(r, state, memory)
             /\ cpuRet' = [path |-> r.path, cycles |-> r.cycles,
                           debug |-> debug, wasHalted |-> halted]
             /\ instructionCache' =
                    IF ~faulted /\ debug = 0
                       /\ Cardinality(DOMAIN instructionCache) < InstructionCacheLimit
                    THEN CacheResult(instructionCache, opcode, r.cycles, r.state)
                    ELSE instructionCache
             /\ trace_buffer' =
                    IF ~faulted /\ tracingEnabled
                    THEN addTrace(trace_buffer, max_entries, r.state.pc, opcode,
                                  r.state, r.cycles)
                    ELSE trace_buffer
             /\ IF ~faulted /\ count >= 1000
                THEN /\ cache' = flushed.cache
                     /\ memory' = flushed.memory
                     /\ cacheFlushCounter' = 0
                ELSE /\ cache' = cache
                     /\ memory' = r.memory
                     /\ cacheFlushCounter' = IF faulted THEN cacheFlushCounter
                                             ELSE count

\* The call Emulate8080p(debug) in the current state reaches
\* memoryCache.flush(): it takes the normal path, the base step does not
\* throw, and the incremented counter reaches 1000.
FlushDue(debug) ==
    /\ ~FastPath(state, memory, instructionCache, debug)
    /\ BaseEmulate8080p(state, memory, halted, interrupt,
                        interrupt_code).path # "INVALID_OPCODE"
    /\ cacheFlushCounter + 1 >= 1000

\* What a call Emulate8080p(debug) in the current state leaves the guest
\* with: registers, flags, PC and SP, memory, and the returned cycle count.
GuestResult(debug) ==
    IF FastPath(state, memory, instructionCache, debug)
    THEN [state |-> ApplyCached(state, instructionCache[state.pc]),
          memory |-> memory,
          cycles |-> instructionCache[state.pc].cycles]
    ELSE LET r == BaseEmulate8080p(state, memory, halted, interrupt,
                                   interrupt_code)
         IN  [state |-> r.state,
              memory |-> IF r.path # "INVALID_OPCODE"
                            /\ cacheFlushCounter + 1 >= 1000
                         THEN CacheFlush(cache, r.memory).memory
                         ELSE r.memory,
              cycles |-> r.cycles]

\* CPU8080::raiseInterrupt(code).
raiseInterrupt(code) ==
    /\ interrupt' = 1
    /\ interrupt_code' = code

\* Guest programs: bytes at 0x0000 onwards, the rest of memory zero (NOP).
\*   1: NOP; CMA; JMP 0000
\*   2: JMP 0006; NOP; NOP; NOP; JMP 0003
\*   3: HLT
\*   4: JMP 0006; JMP 0000; JMP 0003
\*   5: JMP 0006; HLT; JMP 0003
Programs ==
    { <<NOP, CMA, JMP, 0, 0>>,
      <<JMP, 6, 0, NOP, NOP, NOP, JMP, 3, 0>>,
      <<HLT>>,
      <<JMP, 6, 0, JMP, 0, 0, JMP, 3, 0>>,
      <<JMP, 6, 0, HLT, 0, 0, JMP, 3, 0>> }

LoadProgram(bytes) == [a \in 0..(Len(bytes) - 1) |-> bytes[a + 1]]

RaiseCodes == {8, 207, 215}

CPUInitWith(st, q) ==
    /\ state = st
    /\ halted = FALSE
    /\ interrupt = 0
    /\ interrupt_code = 0
    /\ instructionCache = <<>>
    /\ cacheFlushCounter = 0
    /\ tracingEnabled = FALSE
    /\ trace_buffer = <<>>
    /\ max_entries = 1000
    /\ cpuRet = [path |-> "init", cycles |-> 0, debug |-> 0, wasHalted |-> FALSE]
    /\ cpuSteps = 0
    /\ quantum = q
    /\ scheduler_timer = 0
    /\ systemCall = FALSE

\* The CPU as constructed: registers zero, quantum 80.
CPUInit == CPUInitWith(State8080, 80)

StepAction ==
    \E debug \in {0, 1} :
        /\ cpuSteps < MaxSteps
        /\ cpuSteps' = cpuSteps + 1
        /\ Emulate8080p(debug)
        /\ UNCHANGED <<tracingEnabled, max_entries, quantum>>

RaiseAction ==
    \E code \in RaiseCodes :
        /\ raiseInterrupt(code)
        /\ UNCHANGED <<state, halted, instructionCache, cacheFlushCounter,
                       tracingEnabled, trace_buffer, max_entries, cpuRet,
                       cpuSteps, memory, cache, quantum, scheduler_timer,
                       systemCall>>

(***************************************************************************)
(* main: the host loop around CPU8080::Emulate8080p.                       *)
(*   do { Emulate8080p(DEBUG);                                             *)
(*        if (isSystemCall() && interrupt == 0) handleCall(theCPU, DEBUG); *)
(*   } while (!isHalted());                                                *)
(***************************************************************************)
HostInit ==
    /\ hostPos = "step"
    /\ debugOption = 0
    /\ handled = 0
    /\ trapped = FALSE

\* The history variables and the table lookup before any operation.
AuxInit ==
    /\ traceLog = <<>>
    /\ sinceFlush = 0
    /\ tableByte = 0
    /\ decoded = InstructionTable(0)
    /\ parityBit = Parity(0)

\* theCPU.Emulate8080p(DEBUG): one step of the base CPU.  A fault ends the
\* program.
HostStep ==
    LET r == BaseEmulate8080p(state, memory, halted, interrupt, interrupt_code)
        hook == SchedulerHook(r.interrupt, interrupt_code, scheduler_timer,
                              quantum, r.cycles)
    IN  /\ hostPos = "step"
        /\ cpuSteps < MaxHostSteps
        /\ cpuSteps' = cpuSteps + 1
        /\ state' = r.state
        /\ memory' = r.memory
        /\ halted' = r.halted
        /\ interrupt' = hook.interrupt
        /\ interrupt_code' = hook.interrupt_code
        /\ scheduler_timer' = hook.scheduler_timer
        /\ systemCall' = TrapExecuted(r, state, memory)
        /\ cpuRet' = [path |-> r.path, cycles |-> r.cycles,
                      debug |-> debugOption, wasHalted |-> halted]
        /\ trapped' = TrapExecuted(r, state, memory)
        /\ handled' = 0
        /\ hostPos' = IF r.path = "INVALID_OPCODE" THEN "done" ELSE "check"
        /\ UNCHANGED <<cache, instructionCache, cacheFlushCounter,
                       tracingEnabled, trace_buffer, max_entries, quantum,
                       debugOption>>

\* GTUOS::handleCall: opaque to the core; the flag is clear after it (4.6).
handleCall ==
    /\ handled' = handled + 1
    /\ systemCall' = FALSE

\* The test after the step and the loop condition.
HostCheck ==
    /\ hostPos = "check"
    /\ IF systemCall /\ interrupt = 0
       THEN handleCall
       ELSE UNCHANGED <<handled, systemCall>>
    /\ hostPos' = IF halted THEN "done" ELSE "step"
    /\ UNCHANGED <<state, memory, cache, halted, interrupt, interrupt_code,
                   instructionCache, cacheFlushCounter, tracingEnabled,
                   trace_buffer, max_entries, cpuRet, cpuSteps, quantum,
                   scheduler_timer, debugOption, trapped>>

\* The host writes state.int_enable, as testInterrupts does.
SetIntEnable ==
    \E v \in {0, 1} :
        /\ state' = [state EXCEPT !.int_enable = v]
        /\ UNCHANGED <<halted, interrupt, interrupt_code, instructionCache,
                       cacheFlushCounter, tracingEnabled, trace_buffer,
                       max_entries, cpuRet, cpuSteps, memory, cache, quantum,
                       scheduler_timer, systemCall>>

(***************************************************************************)
(* Specifications                                                          *)
(***************************************************************************)
InitIC ==
    /\ ICInit
    /\ CacheInit /\ memory = <<>> /\ shadow = <<>>
    /\ MBCInit
    /\ CPUInit
    /\ HostInit /\ AuxInit

NextIC ==
    \/ QueueStep /\ UNCHANGED <<cacheVars, mbcVars, cpuVars, hostVars, auxVars>>
    \/ getNextInterrupt /\ UNCHANGED <<cacheVars, mbcVars, cpuVars, hostVars, auxVars>>
    \/ clear /\ UNCHANGED <<cacheVars, mbcVars, cpuVars, hostVars, auxVars>>

SpecIC == InitIC /\ [][NextIC]_vars

InitCache ==
    /\ ICInit
    /\ CacheInit /\ memory = CacheImage /\ shadow = CacheImage
    /\ MBCInit
    /\ CPUInit
    /\ HostInit /\ AuxInit

NextCache ==
    \/ CacheReadStep /\ UNCHANGED <<icVars, mbcVars, cpuVars, hostVars, auxVars>>
    \/ CacheWriteStep /\ UNCHANGED <<icVars, mbcVars, cpuVars, hostVars, auxVars>>
    \/ CacheFlushStep /\ UNCHANGED <<icVars, mbcVars, cpuVars, hostVars, auxVars>>

SpecCache == InitCache /\ [][NextCache]_vars

InitMBC == InitIC

NextMBC ==
    \/ mapMemoryStep /\ UNCHANGED <<icVars, cacheVars, cpuVars, hostVars, auxVars>>
    \/ switchBankStep /\ UNCHANGED <<icVars, cacheVars, cpuVars, hostVars, auxVars>>
    \/ readStep /\ UNCHANGED <<icVars, cacheVars, cpuVars, hostVars, auxVars>>
    \/ writeStep /\ UNCHANGED <<icVars, cacheVars, cpuVars, hostVars, auxVars>>

SpecMBC == InitMBC /\ [][NextMBC]_vars

InitCPU ==
    /\ ICInit
    /\ CacheInit /\ shadow = <<>>
    /\ \E bytes \in Programs : memory = LoadProgram(bytes)
    /\ MBCInit
    /\ CPUInit
    /\ HostInit /\ AuxInit

NextCPU ==
    \/ StepAction /\ UNCHANGED <<icVars, mbcVars, shadow, cacheRet, hostVars, auxVars>>
    \/ RaiseAction /\ UNCHANGED <<icVars, mbcVars, shadow, cacheRet, hostVars, auxVars>>
    \/ SetIntEnable /\ UNCHANGED <<icVars, mbcVars, shadow, cacheRet, hostVars, auxVars>>

SpecCPU == InitCPU /\ [][NextCPU]_vars

\* The instructions one by one: a program and the registers it starts from.
\*   CALL 0003; JMP 0000
\*   PUSH B; POP B; JMP 0000
\*   JMP 0006; LDA 000A; JMP 0003; data 55 at 000A
\*   STA 0010; JMP 0000
\*   ADD B; HLT     SUB B; HLT     DAA; HLT
ALUOperands == {0, 1, 3, 15, 16, 127, 128, 255}

OpCases ==
    { [bytes |-> <<CALL, 3, 0, JMP, 0, 0>>,
       st |-> [State8080 EXCEPT !.sp = 9216]],
      [bytes |-> <<PUSH_B, POP_B, JMP, 0, 0>>,
       st |-> [State8080 EXCEPT !.b = 18, !.c = 52, !.sp = 9216]],
      [bytes |-> <<JMP, 6, 0, LDA, 10, 0, JMP, 3, 0, 0, 85>>,
       st |-> State8080],
      [bytes |-> <<STA, 16, 0, JMP, 0, 0>>,
       st |-> [State8080 EXCEPT !.a = 170]] }
    \cup { [bytes |-> <<op, HLT>>, st |-> [State8080 EXCEPT !.a = a, !.b = r]] :
              op \in {ADD_B, SUB_B}, a \in 0..255, r \in ALUOperands }
    \cup { [bytes |-> <<DAA, HLT>>,
            st |-> [State8080 EXCEPT !.a = a, !.cc.cy = cy, !.cc.ac = ac]] :
              a \in 0..255, cy \in {0, 1}, ac \in {0, 1} }

InitOps ==
    /\ ICInit
    /\ CacheInit /\ shadow = <<>>
    /\ MBCInit
    /\ HostInit /\ AuxInit
    /\ \E case \in OpCases :
           /\ memory = LoadProgram(case.bytes)
           /\ CPUInitWith(case.st, 80)

NextOps == StepAction /\ UNCHANGED <<icVars, mbcVars, shadow, cacheRet, hostVars, auxVars>>

SpecOps == InitOps /\ [][NextOps]_vars

\* The InstructionTracer by itself: addTrace and setMaxEntries in any order.
TracePCs == {0, 1}
TraceBounds == {1, 2, 3}

addTraceStep ==
    \E pc \in TracePCs :
        /\ Len(traceLog) < MaxTraces
        /\ trace_buffer' = addTrace(trace_buffer, max_entries, pc, NOP,
                                    State8080, Len(traceLog))
        /\ traceLog' = Append(traceLog,
                              TraceEntry(pc, NOP, State8080, Len(traceLog)))
        /\ UNCHANGED max_entries

\* InstructionTracer::setMaxEntries(max).
setMaxEntries(max) ==
    /\ max_entries' = max
    /\ UNCHANGED <<trace_buffer, traceLog>>

setMaxEntriesStep == \E max \in TraceBounds : setMaxEntries(max)

TracerRest ==
    UNCHANGED <<icVars, cacheVars, mbcVars, hostVars, state, halted, interrupt,
                interrupt_code, instructionCache, cacheFlushCounter,
                tracingEnabled, cpuRet, cpuSteps, quantum, scheduler_timer,
                systemCall, sinceFlush, tableByte, decoded, parityBit>>

InitTracer == InitIC

NextTracer ==
    \/ addTraceStep /\ TracerRest
    \/ setMaxEntriesStep /\ TracerRest

SpecTracer == InitTracer /\ [][NextTracer]_vars

\* The enhanced CPU stepped without end while the host queues requests on
\* its InterruptController and interrupts are enabled again after every
\* acceptance.
\*   JMP 0000; at 0008 (the scheduler vector's entry): RET
LiveImage == LoadProgram(<<JMP, 0, 0, NOP, NOP, NOP, NOP, NOP, RET>>)

\* One more call of Emulate8080p(0).
LiveStep ==
    /\ Emulate8080p(0)
    /\ UNCHANGED <<tracingEnabled, max_entries, quantum, cpuSteps>>
    /\ UNCHANGED <<icVars, mbcVars, shadow, cacheRet, hostVars, auxVars>>

\* cpu.getInterruptController().queueInterrupt(0xCF, 0).
ControllerQueue ==
    /\ Len(int_queue) < MaxPending
    /\ queueInterrupt(SchedulerVector, 0)
    /\ UNCHANGED <<cacheVars, mbcVars, cpuVars, hostVars, auxVars>>

\* Interrupts are enabled again after an acceptance disabled them.
EnableInterrupts ==
    /\ state.int_enable = 0
    /\ state' = [state EXCEPT !.int_enable = 1]
    /\ UNCHANGED <<halted, interrupt, interrupt_code, instructionCache,
                   cacheFlushCounter, tracingEnabled, trace_buffer,
                   max_entries, cpuRet, cpuSteps, memory, cache, quantum,
                   scheduler_timer, systemCall>>
    /\ UNCHANGED <<icVars, mbcVars, shadow, cacheRet, hostVars, auxVars>>

InitLive ==
    /\ ICInit
    /\ CacheInit /\ shadow = <<>>
    /\ MBCInit
    /\ memory = LiveImage
    /\ CPUInit
    /\ HostInit /\ AuxInit

NextLive ==
    \/ LiveStep
    \/ ControllerQueue
    \/ EnableInterrupts

\* Steps keep being taken, and interrupts are enabled again.
SpecLive ==
    InitLive /\ [][NextLive]_vars
        /\ WF_vars(LiveStep) /\ WF_vars(EnableInterrupts)

\* A long run of Emulate8080p(0) calls, counting the calls since the last
\* flush of the memory cache.
\*   JMP 0006; JMP 0000; JMP 0003        JMP 0000
RunPrograms ==
    { <<JMP, 6, 0, JMP, 0, 0, JMP, 3, 0>>,
      <<JMP, 0, 0>> }

RunStep ==
    /\ cpuSteps < MaxRunSteps
    /\ cpuSteps' = cpuSteps + 1
    /\ Emulate8080p(0)
    /\ sinceFlush' = IF FlushDue(0) THEN 0 ELSE sinceFlush + 1
    /\ UNCHANGED <<tracingEnabled, max_entries, quantum>>
    /\ UNCHANGED <<icVars, mbcVars, shadow, cacheRet, hostVars, traceLog,
                   tableByte, decoded, parityBit>>

InitRun ==
    /\ ICInit
    /\ CacheInit /\ shadow = <<>>
    /\ MBCInit
    /\ \E bytes \in RunPrograms : memory = LoadProgram(bytes)
    /\ CPUInit
    /\ HostInit /\ AuxInit

NextRun == RunStep

SpecRun == InitRun /\ [][NextRun]_vars

\* The two constant tables, looked up byte by byte.
Bytes == 0..255

Lookup ==
    \E v \in Bytes :
        /\ tableByte' = v
        /\ decoded' = InstructionTable(v)
        /\ parityBit' = Parity(v)
        /\ UNCHANGED <<icVars, cacheVars, mbcVars, cpuVars, hostVars,
                       traceLog, sinceFlush>>

InitTable == InitIC

NextTable == Lookup

SpecTable == InitTable /\ [][NextTable]_vars

\* EnhancedCPU8080::enableTracing(enable): switching tracing off clears the
\* tracer.
enableTracing(enable) ==
    /\ tracingEnabled' = enable
    /\ trace_buffer' = IF enable THEN trace_buffer ELSE <<>>
    /\ UNCHANGED <<state, halted, interrupt, interrupt_code, instructionCache,
                   cacheFlushCounter, max_entries, cpuRet, cpuSteps, memory,
                   cache, quantum, scheduler_timer, systemCall>>

EnableTracingAction == \E enable \in BOOLEAN : enableTracing(enable)

\* The enhanced CPU stepped with tracing switched on and off.
InitTracing == InitCPU

NextTracing ==
    \/ StepAction /\ UNCHANGED <<icVars, mbcVars, shadow, cacheRet, hostVars, auxVars>>
    \/ EnableTracingAction
           /\ UNCHANGED <<icVars, mbcVars, shadow, cacheRet, hostVars, auxVars>>

SpecTracing == InitTracing /\ [][NextTracing]_vars

\* The host loop of main on the base CPU.
\*   RST 7; at 0038: JMP 0000
\*   NOP; RST 7; HLT; at 0038: RET
\*   HLT
HostImages ==
    { (0 :> RST_7 @@ 56 :> JMP @@ 57 :> 0 @@ 58 :> 0),
      (0 :> NOP @@ 1 :> RST_7 @@ 2 :> HLT @@ 56 :> RET),
      (0 :> HLT) }

Quanta == {80, 10}

InitHost ==
    /\ ICInit
    /\ CacheInit /\ shadow = <<>>
    /\ MBCInit
    /\ memory \in HostImages
    /\ \E q \in Quanta : CPUInitWith(State8080, q)
    /\ hostPos = "step"
    /\ debugOption \in {0, 1}
    /\ handled = 0
    /\ trapped = FALSE
    /\ AuxInit

NextHost ==
    \/ HostStep /\ UNCHANGED <<icVars, mbcVars, shadow, cacheRet, auxVars>>
    \/ HostCheck /\ UNCHANGED <<icVars, mbcVars, shadow, cacheRet, auxVars>>

SpecHost == InitHost /\ [][NextHost]_vars

\* Mapping tables with read-only entries.  No operation of the class sets
\* readOnly, so write's read-only branch is exercised from these tables:
\* every table mapMemory's checks admit, with the flag free.
ROBases == {0, 16384}
ROTables ==
    {<<>>}
    \cup { <<[BankMapping(1, a) EXCEPT !.readOnly = ro]>> :
             a \in ROBases, ro \in BOOLEAN }
    \cup { <<[BankMapping(1, 0) EXCEPT !.readOnly = r1],
             [BankMapping(1, 16384) EXCEPT !.readOnly = r2]>> :
             r1 \in BOOLEAN, r2 \in BOOLEAN }

InitRO ==
    /\ ICInit
    /\ CacheInit /\ memory = <<>> /\ shadow = <<>>
    /\ banks = BanksConstructed
    /\ currentBank = 0
    /\ mappings \in ROTables
    /\ mbcRet = [op |-> "init", err |-> "none", address |-> 0, bank |-> 0,
                 value |-> 0]
    /\ lastWrite = NoWrite
    /\ mbcOps = 0
    /\ issued = <<>>
    /\ CPUInit
    /\ HostInit /\ AuxInit

SpecRO == InitRO /\ [][NextMBC]_vars

(***************************************************************************)
(* Claims                                                                  *)
(***************************************************************************)

\* C1: successive getNextInterrupt calls return the pending requests in order
\* of decreasing priority, and in queueing order among equal priorities: when
\* a request is returned, every request still pending has a lower priority,
\* or the same priority and a later arrival.
C1_PriorityOrder ==
    (icRet.op = "get" /\ icRet.err = "none") =>
        \A i \in 1..Len(int_queue) :
            \/ int_queue[i].priority < icRet.req.priority
            \/ /\ int_queue[i].priority = icRet.req.priority
               /\ icStamp[i] > icRet.stamp

\* C5: read(a) returns the most recent write to a, or the original byte, as
\* the uncached memory would, and after flush() the backing memory holds that
\* value for every address.
C5_CacheTransparent ==
    /\ cacheRet.op = "read" => cacheRet.value = shadow[cacheRet.address]
    /\ cacheRet.op = "flush" =>
           \A a \in CacheAddrs : MemAt(memory, a) = shadow[a]

\* The ranges of two mappings share an address.
RangesMeet(m1, m2) ==
    /\ m1.baseAddr < m2.baseAddr + m2.size
    /\ m2.baseAddr < m1.baseAddr + m1.size

\* The mappings of the table that cover a guest address.
Covering(ms, a) ==
    {i \in 1..Len(ms) : ms[i].baseAddr <= a /\ a < ms[i].baseAddr + ms[i].size}

\* C6: after a successful write(a, v) to a mapped address a, read(a) returns
\* v until the next write, whatever switchBank and mapMemory calls intervene.
C6_ReadAfterWrite ==
    lastWrite.valid =>
        /\ MBCRead(mappings, banks, currentBank, lastWrite.address)
               = [err |-> "none", value |-> lastWrite.value]
        /\ (mbcRet.op = "read" /\ mbcRet.address = lastWrite.address) =>
               (mbcRet.err = "none" /\ mbcRet.value = lastWrite.value)

C6_Witness ==
    /\ lastWrite.valid
    /\ mbcRet.op = "read" /\ mbcRet.address = lastWrite.address
    /\ mbcRet.value = lastWrite.value
    /\ currentBank # 0
    /\ Len(mappings) >= 2

\* C7: no two entries of the mapping table cover a common guest address.
C7_NoOverlap ==
    \A i, j \in 1..Len(mappings) :
        i # j => ~RangesMeet(mappings[i], mappings[j])

C7_Witness ==
    /\ Len(mappings) >= 2
    /\ mbcRet.op = "mapMemory"
    /\ mbcRet.err = "MEMORY_ACCESS_VIOLATION"
    /\ mbcRet.bank < NumBanks
    /\ mbcRet.address + BankSize <= 65535

\* The new range [base, base + bank_size) reaches beyond guest address 0xFFFF.
ExtendsPast(base) == base + BankSize - 1 > 65535

\* C8: mapMemory(base, bank) fails with MEMORY_ACCESS_VIOLATION if and only
\* if bank is no valid bank number, or [base, base + bank_size) extends past
\* 0xFFFF, or that range overlaps an existing mapping; in every other case it
\* appends exactly one read-write mapping (bank, base, bank_size).
C8_MapMemoryFailsIff ==
    [][ mbcRet'.op = "mapMemory" =>
          LET base == mbcRet'.address
              bank == mbcRet'.bank
              new  == [bank |-> bank, baseAddr |-> base, size |-> BankSize,
                       readOnly |-> FALSE]
              bad  == \/ bank \notin 0..(NumBanks - 1)
                      \/ ExtendsPast(base)
                      \/ \E i \in 1..Len(mappings) : RangesMeet(mappings[i], new)
          IN  /\ (mbcRet'.err = "MEMORY_ACCESS_VIOLATION") <=> bad
              /\ bad => mappings' = mappings
              /\ ~bad => (mbcRet'.err = "none" /\ mappings' = Append(mappings, new))
      ]_vars

\* What C9 says of a read or write of a mapped address (shared by the claim
\* as stated and as amended): it goes to offset (a - base) of the mapping's
\* bank, whatever the current bank is.
C9_Mapped ==
    /\ (mbcRet'.op = "read" /\ Covering(mappings, mbcRet'.address) # {}) =>
          \A i \in Covering(mappings, mbcRet'.address) :
              /\ mbcRet'.err = "none"
              /\ mbcRet'.value = BankAt(banks, mappings[i].bank,
                                        mbcRet'.address - mappings[i].baseAddr)
    /\ (mbcRet'.op = "write" /\ Covering(mappings, mbcRet'.address) # {}) =>
          \A i \in Covering(mappings, mbcRet'.address) :
              ~mappings[i].readOnly =>
                  /\ mbcRet'.err = "none"
                  /\ banks' = BankStore(banks, mappings[i].bank,
                                  mbcRet'.address - mappings[i].baseAddr,
                                  mbcRet'.value)

\* An unmapped address is served by the current bank, at offset a.
C9_ServedByCurrentBank ==
    /\ mbcRet'.op = "read" =>
          /\ mbcRet'.err = "none"
          /\ mbcRet'.value = BankAt(banks, currentBank, mbcRet'.address)
    /\ mbcRet'.op = "write" =>
          /\ mbcRet'.err = "none"
          /\ banks' = BankStore(banks, currentBank, mbcRet'.address,
                                mbcRet'.value)

\* C9 as stated: a mapped address resolves to offset (a - base) of the
\* mapping's bank, and every address covered by no mapping is served by the
\* current bank.
C9_AsStated ==
    [][ /\ C9_Mapped
        /\ (mbcRet'.op \in {"read", "write"}
            /\ Covering(mappings, mbcRet'.address) = {}) => C9_ServedByCurrentBank
      ]_vars

\* C9 as amended: a mapped address resolves to offset (a - base) of the
\* mapping's bank independently of the current bank; an unmapped address
\* below bank_size is served by the current bank at offset a; an unmapped
\* address at or above bank_size is rejected with MEMORY_ACCESS_VIOLATION and
\* no bank changes.
C9_Resolution ==
    [][ /\ C9_Mapped
        /\ (mbcRet'.op \in {"read", "write"}
            /\ Covering(mappings, mbcRet'.address) = {}) =>
              IF mbcRet'.address < BankSize
              THEN C9_ServedByCurrentBank
              ELSE mbcRet'.err = "MEMORY_ACCESS_VIOLATION" /\ banks' = banks
      ]_vars

C9_Witness ==
    /\ mbcRet.op = "read"
    /\ mbcRet.err = "MEMORY_ACCESS_VIOLATION"
    /\ Covering(mappings, mbcRet.address) = {}
    /\ mappings # <<>>
    /\ mbcOps > 0

\* C10: a write to an address covered by a read-only mapping fails with
\* MEMORY_ACCESS_VIOLATION and leaves every bank unchanged; a write to an
\* address covered by a read-write mapping is not rejected.
C10_ReadOnlyRejected ==
    [][ mbcRet'.op = "write" =>
          \A i \in Covering(mappings, mbcRet'.address) :
              IF mappings[i].readOnly
              THEN mbcRet'.err = "MEMORY_ACCESS_VIOLATION" /\ banks' = banks
              ELSE mbcRet'.err = "none"
      ]_vars

C10_Witness ==
    /\ mbcRet.op = "write"
    /\ mbcRet.err = "MEMORY_ACCESS_VIOLATION"
    /\ \E i \in Covering(mappings, mbcRet.address) : mappings[i].readOnly
    /\ \E i \in 1..Len(mappings) : ~mappings[i].readOnly

\* An Emulate8080p call is taken.
IsStep == cpuSteps' = cpuSteps + 1

\* C2: every Emulate8080p call made with int_enable set and a raised
\* interrupt pending accepts the interrupt instead of executing the
\* instruction at PC, also when the instruction cache holds an entry for PC.
C2_PendingAccepted ==
    [][ (IsStep /\ state.int_enable = 1 /\ interrupt = 1) =>
            cpuRet'.path = "accept"
      ]_vars

\* C3: a step taken with a raised interrupt and int_enable = 0 does not
\* accept it: it executes the instruction at PC (registers, PC and memory
\* are what executing that instruction yields) and the interrupt stays
\* pending.
C3_DisabledNotAccepted ==
    [][ (IsStep /\ interrupt = 1 /\ state.int_enable = 0 /\ ~halted) =>
            /\ cpuRet'.path # "accept"
            /\ interrupt' = 1 /\ interrupt_code' = interrupt_code
            /\ state' = Execute(state, memory, interrupt).state
            /\ memory' = Execute(state, memory, interrupt).memory
      ]_vars

\* C4: a step that accepts an interrupt clears int_enable, clears the halted
\* state, pushes a 16-bit return address (SP decreases by exactly 2 mod 2^16,
\* memory changes at the two stack bytes only) and sets PC to the entry
\* address of the vector, 8 * n for RST n.
C4_AcceptEffects ==
    [][ (IsStep /\ cpuRet'.path = "accept") =>
            /\ state'.int_enable = 0
            /\ ~halted'
            /\ state'.sp = (state.sp + 65534) % 65536
            /\ \A n \in 0..7 :
                   interrupt_code \in {199 + 8 * n, 8 * n} => state'.pc = 8 * n
            /\ \A x \in (DOMAIN memory) \cup (DOMAIN memory') :
                   x \notin {state'.sp, (state'.sp + 1) % 65536} =>
                       MemAt(memory', x) = MemAt(memory, x)
      ]_vars

C4_Witness ==
    /\ cpuRet.path = "accept"
    /\ cpuRet.wasHalted
    /\ state.pc = 16
    /\ state.sp = 65534
    /\ state.int_enable = 0
    /\ ~halted

(***************************************************************************)
(* Instruction semantics under EnhancedCPU8080::Emulate8080p               *)
(***************************************************************************)
\* An Emulate8080p call made while the CPU is not halted and accepts no
\* interrupt, with opcode op at PC.
ExecutesAt(op) ==
    /\ IsStep
    /\ ~halted
    /\ ~(state.int_enable = 1 /\ interrupt = 1)
    /\ MemAt(memory, state.pc) = op

\* The registers other than PC and SP, and the flags.
Registers(st) == <<st.a, st.b, st.c, st.d, st.e, st.h, st.l>>

\* C11: a step taken with one value of the debug flag leaves the guest with
\* the same registers, flags, PC, SP, memory and cycle count as the step
\* with the other value of the flag would have, from the same state.
C11_DebugObservational ==
    [][ IsStep =>
            LET other == GuestResult(1 - cpuRet'.debug)
            IN  /\ state' = other.state
                /\ memory' = other.memory
                /\ cpuRet'.cycles = other.cycles
      ]_vars

\* C12: a step that executes JMP addr leaves PC = addr, returns 10 cycles
\* and leaves every register, SP and every flag unchanged.
C12_JmpSetsPC ==
    [][ ExecutesAt(JMP) =>
            /\ state'.pc = Operand16(state, memory)
            /\ cpuRet'.cycles = 10
            /\ [state' EXCEPT !.pc = 0] = [state EXCEPT !.pc = 0]
      ]_vars

\* C13: every execution of CMA, repeated ones at the same PC included,
\* replaces A by its bitwise complement and changes no flag and no other
\* register.
C13_CmaComplements ==
    [][ ExecutesAt(CMA) =>
            /\ state'.a = 255 - state.a
            /\ [state' EXCEPT !.a = 0, !.pc = 0] = [state EXCEPT !.a = 0, !.pc = 0]
      ]_vars

\* C14: every step executing CALL addr stores PC+3 little-endian at
\* SP-2..SP-1, sets SP to SP-2 and PC to addr; every step executing RET sets
\* PC to the word on top of the stack and SP to SP+2 (all mod 2^16).
C14_CallRet ==
    [][ /\ ExecutesAt(CALL) =>
               /\ state'.sp = Word(state.sp + 65534)
               /\ state'.pc = Operand16(state, memory)
               /\ MemAt(memory', Word(state.sp + 65534)) = Word(state.pc + 3) % 256
               /\ MemAt(memory', Word(state.sp + 65535)) = Word(state.pc + 3) \div 256
        /\ ExecutesAt(RET) =>
               /\ state'.pc = Top16(memory, state.sp)
               /\ state'.sp = Word(state.sp + 2)
      ]_vars

\* C15: every step executing PUSH B stores B at SP-1 and C at SP-2 and
\* lowers SP by 2; every step executing POP B loads C and B from SP and SP+1
\* and raises SP by 2, so that POP after PUSH restores the pair and SP.
C15_PushPop ==
    [][ /\ ExecutesAt(PUSH_B) =>
               /\ state'.sp = Word(state.sp + 65534)
               /\ MemAt(memory', Word(state.sp + 65535)) = state.b
               /\ MemAt(memory', Word(state.sp + 65534)) = state.c
               /\ Registers(state') = Registers(state)
        /\ ExecutesAt(POP_B) =>
               /\ state'.sp = Word(state.sp + 2)
               /\ state'.c = MemAt(memory, state.sp)
               /\ state'.b = MemAt(memory, Word(state.sp + 1))
      ]_vars

\* C16: every step executing LDA addr loads A from addr as memory holds it
\* at that moment, every step executing STA addr stores A at addr, and both
\* advance PC by 3.
C16_LoadStore ==
    [][ /\ ExecutesAt(LDA) =>
               /\ state'.a = MemAt(memory, Operand16(state, memory))
               /\ state'.pc = Word(state.pc + 3)
        /\ ExecutesAt(STA) =>
               /\ MemAt(memory', Operand16(state, memory)) = state.a
               /\ state'.pc = Word(state.pc + 3)
      ]_vars

\* The number of one bits of a byte.
RECURSIVE OnesCount(_)
OnesCount(x) == IF x = 0 THEN 0 ELSE (x % 2) + OnesCount(x \div 2)

\* Z, S and P as the result byte r determines them.
ResultFlags(cc, r) ==
    /\ cc.z = (IF r = 0 THEN 1 ELSE 0)
    /\ cc.s = (IF r >= 128 THEN 1 ELSE 0)
    /\ cc.p = (IF OnesCount(r) % 2 = 0 THEN 1 ELSE 0)

\* C17: when the interpreter executes ADD B, A becomes (A + B) mod 256 with
\* CY = 1 iff A + B > 255 and AC = 1 iff the low nibbles sum above 0x0F;
\* when it executes SUB B, A becomes (A - B) mod 256 with CY = 1 iff A < B;
\* in both Z, S and P are those of the result.
C17_AddSub ==
    [][ /\ (ExecutesAt(ADD_B) /\ cpuRet'.path = "exec") =>
               /\ state'.a = (state.a + state.b) % 256
               /\ state'.cc.cy = 1 <=> state.a + state.b > 255
               /\ state'.cc.ac = 1 <=> (state.a % 16) + (state.b % 16) > 15
               /\ ResultFlags(state'.cc, state'.a)
        /\ (ExecutesAt(SUB_B) /\ cpuRet'.path = "exec") =>
               /\ state'.a = (state.a - state.b) % 256
               /\ state'.cc.cy = 1 <=> state.a < state.b
               /\ ResultFlags(state'.cc, state'.a)
      ]_vars

\* 0xFF + 0x01 was added (A = 0, CY and Z set) or 0x01 was subtracted from
\* 0x00 (A = 0xFF, CY set).
C17_Witness ==
    /\ cpuSteps = 1 /\ cpuRet.path = "exec"
    /\ state.b = 1
    /\ \/ MemAt(memory, 0) = ADD_B /\ state.a = 0 /\ state.cc.cy = 1
          /\ state.cc.z = 1 /\ state.cc.ac = 1
       \/ MemAt(memory, 0) = SUB_B /\ state.a = 255 /\ state.cc.cy = 1
          /\ state.cc.s = 1

\* C18: when the interpreter executes DAA, 0x06 is added to A when the low
\* nibble is above 9 or AC = 1 (AC becomes the carry out of bit 3), then 0x60
\* when A is above 0x9F or CY = 1 (CY is set then, and never cleared), and
\* S, Z, P are those of the final A; A = 0x9B with CY = AC = 0 gives
\* A = 0x01 and CY = 1.
C18_DecimalAdjust ==
    [][ (ExecutesAt(DAA) /\ cpuRet'.path = "exec") =>
            LET low  == IF state.a % 16 > 9 \/ state.cc.ac = 1 THEN 6 ELSE 0
                a1   == (state.a + low) % 256
                high == IF a1 >= 160 \/ state.cc.cy = 1 THEN 96 ELSE 0
            IN  /\ state'.a = (a1 + high) % 256
                /\ low = 6 => (state'.cc.ac = 1 <=> (state.a % 16) + 6 > 15)
                /\ high = 96 => state'.cc.cy = 1
                /\ state.cc.cy = 1 => state'.cc.cy = 1
                /\ high = 0 => state'.cc.cy = state.cc.cy
                /\ ResultFlags(state'.cc, state'.a)
                /\ (state.a = 155 /\ state.cc.cy = 0 /\ state.cc.ac = 0) =>
                       (state'.a = 1 /\ state'.cc.cy = 1)
      ]_vars

\* DAA has turned 0x9B into 0x01 with CY and AC set.
C18_Witness ==
    /\ cpuSteps = 1 /\ cpuRet.path = "exec"
    /\ MemAt(memory, 0) = DAA
    /\ state.a = 1 /\ state.cc.cy = 1 /\ state.cc.ac = 1
    /\ state.cc.z = 0 /\ state.cc.s = 0 /\ state.cc.p = 0

\* C19: the cycle count of every step, whichever path it takes, is added to
\* scheduler_timer; when the credited cycles reach the quantum the scheduler
\* interrupt is raised and the counter reset.
C19_CyclesCredited ==
    [][ IsStep =>
            IF scheduler_timer + cpuRet'.cycles >= quantum
            THEN /\ scheduler_timer' = 0
                 /\ interrupt' = 1
                 /\ interrupt_code' = SchedulerVector
            ELSE scheduler_timer' = scheduler_timer + cpuRet'.cycles
      ]_vars

\* C20: when the host loop is about to take the next step (or has left the
\* loop) after a step that left isSystemCall() true, handleCall has been
\* invoked exactly once since that step and the flag is clear.
C20_TrapHandledOnce ==
    (hostPos \in {"step", "done"} /\ trapped) =>
        (handled = 1 /\ ~systemCall)

LastEntries(s, n) == SubSeq(s, Len(s) - n + 1, Len(s))

\* C22: after every addTrace call the trace buffer holds at most max_entries
\* entries, and they are the most recently added ones in insertion order,
\* also after setMaxEntries has changed the bound.
C22_TraceBounded ==
    [][ traceLog' # traceLog =>
            /\ Len(trace_buffer') <= max_entries'
            /\ trace_buffer' = LastEntries(traceLog', Len(trace_buffer'))
      ]_vars

\* How many getNextInterrupt calls returned the request with arrival number s.
TimesReturned(s) == Cardinality({k \in DOMAIN icReturned : icReturned[k] = s})

StillQueued(s) == \E k \in DOMAIN icStamp : icStamp[k] = s

\* getNextInterrupt on an empty queue fails with INVALID_INTERRUPT and leaves
\* the queue empty.
EmptyGetFails ==
    (int_queue = <<>> /\ icRet'.op = "get" /\ icRet' # icRet) =>
        (icRet'.err = "INVALID_INTERRUPT" /\ int_queue' = <<>>)

\* hasInterrupt() is true exactly when some queued request was neither
\* dequeued nor cleared.
HasInterruptExact ==
    hasInterrupt <=>
        \E s \in 1..icNext : TimesReturned(s) = 0 /\ s \notin icCleared

\* C23 (amended): getNextInterrupt on an empty queue fails with
\* INVALID_INTERRUPT and leaves the queue empty; hasInterrupt() is true
\* exactly when a queued request was neither dequeued nor cleared; a request
\* that left the queue was returned by exactly one getNextInterrupt call
\* unless clear() removed it, and then by none.
C23_Resolution ==
    [][ /\ EmptyGetFails
        /\ HasInterruptExact'
        /\ \A s \in 1..icNext' :
               TimesReturned(s)' =
                   IF StillQueued(s)' \/ s \in icCleared' THEN 0 ELSE 1
      ]_vars

\* A get on the empty queue failed after one request was returned and
\* another was cleared.
C23_Witness ==
    /\ icRet.op = "get" /\ icRet.err = "INVALID_INTERRUPT"
    /\ int_queue = <<>>
    /\ icReturned # <<>>
    /\ icCleared # {}

\* C23 as stated: every queued request that left the queue was returned by
\* exactly one getNextInterrupt call.
C23_AsStated ==
    [][ /\ EmptyGetFails
        /\ HasInterruptExact'
        /\ \A s \in 1..icNext' :
               TimesReturned(s)' = IF StillQueued(s)' THEN 0 ELSE 1
      ]_vars

\* C24: every request queued through the CPU's InterruptController is
\* eventually dequeued and delivered by Emulate8080p, provided steps keep
\* being taken and interrupts are enabled again after each acceptance.
C24_QueuedDelivered ==
    \A s \in 1..MaxPending : StillQueued(s) ~> (TimesReturned(s) = 1)

\* The instruction-cache keys a step wrote: new ones and overwritten ones.
KeysWritten ==
    {k \in DOMAIN instructionCache' :
        k \notin DOMAIN instructionCache
            \/ instructionCache'[k] # instructionCache[k]}

\* C25: a step stores its instruction-cache entry under the PC the
\* instruction was fetched at, and a step served from the instruction cache
\* yields the same registers, PC and cycle count as executing the
\* instruction at PC normally.
C25_CacheFaithful ==
    [][ IsStep =>
            /\ KeysWritten \subseteq {state.pc}
            /\ cpuRet'.path = "fast" =>
                   LET r == BaseEmulate8080p(state, memory, halted, interrupt,
                                             interrupt_code)
                   IN  /\ state' = r.state
                       /\ cpuRet'.cycles = r.cycles
      ]_vars

\* C26: the memory cache is flushed at least once in every 1,000 consecutive
\* Emulate8080p calls, whichever path the calls take, and cacheFlushCounter
\* is always within 0..999.
C26_FlushEvery1000 ==
    /\ sinceFlush < 1000
    /\ cacheFlushCounter \in 0..999

\* The value last issued to a cell of a bank; 0 when none was.
IssuedAt(bank, offset) ==
    IF <<bank, offset>> \in DOMAIN issued THEN issued[<<bank, offset>>] ELSE 0

\* The cells that hold a byte or were written to.
BankCells ==
    {<<b, o>> : b \in 0..(NumBanks - 1), o \in MBCAddrs}
        \cup DOMAIN issued
        \cup UNION {{<<b, o>> : o \in DOMAIN banks[b]} : b \in 0..(NumBanks - 1)}

C28_FailuresChangeNothing ==
    [][ /\ mbcRet'.err # "none" =>
               /\ mbcRet'.op \in {"mapMemory", "switchBank", "read", "write"}
               /\ mbcRet'.err = "MEMORY_ACCESS_VIOLATION"
               /\ mappings' = mappings
               /\ currentBank' = currentBank
               /\ banks' = banks
        /\ (mbcRet'.op = "switchBank" /\ mbcRet'.err = "none") =>
               /\ currentBank' = mbcRet'.bank
               /\ mappings' = mappings
               /\ banks' = banks
      ]_vars

\* An operation failed on a controller that has a mapping, a written bank
\* and a current bank other than 0.
C28_Witness ==
    /\ mbcRet.err = "MEMORY_ACCESS_VIOLATION"
    /\ mappings # <<>>
    /\ issued # <<>>
    /\ currentBank = 1

(***************************************************************************)
(* The Intel 8080 instruction set, as far as the table describes it.       *)
(***************************************************************************)
\* The opcodes the 8080 documents; the remaining twelve are aliases.
Documented(op) ==
    op \notin {8, 16, 24, 32, 40, 48, 56, 203, 217, 221, 237, 253}

\* The encoded length of the instruction with opcode op.
TrueLength(op) ==
    IF \/ op \in {1, 17, 33, 49}                     \* LXI
       \/ op \in {34, 42, 50, 58}                    \* SHLD LHLD STA LDA
       \/ (op >= 192 /\ op % 8 \in {2, 4})          \* Jcc, Ccc
       \/ op \in {195, 205}                         \* JMP, CALL
    THEN 3
    ELSE IF \/ (op < 64 /\ op % 8 = 6)               \* MVI
            \/ (op >= 192 /\ op % 8 = 6)             \* ADI ... CPI
            \/ op \in {211, 219}                     \* OUT, IN
    THEN 2
    ELSE 1

\* The instruction with opcode op changes at least one flag.
ChangesFlags(op) ==
    \/ (op < 64 /\ op % 8 \in {4, 5})                \* INR, DCR
    \/ op \in {7, 15, 23, 31}                        \* RLC RRC RAL RAR
    \/ op \in {9, 25, 41, 57}                        \* DAD
    \/ op \in {39, 55, 63}                           \* DAA STC CMC
    \/ op \in 128..191                               \* ADD ... CMP
    \/ (op >= 192 /\ op % 8 = 6)                     \* ADI ... CPI
    \/ op = 241                                      \* POP PSW

\* The instruction with opcode op reads or writes memory beyond its own
\* bytes, whatever the flags are.
TouchesMemory(op) ==
    \/ op \in {2, 18, 10, 26}                        \* STAX, LDAX
    \/ op \in {34, 42, 50, 58}                       \* SHLD LHLD STA LDA
    \/ op \in {52, 53, 54}                           \* INR M, DCR M, MVI M
    \/ (op \in 64..127 /\ op # HLT
           /\ (op % 8 = 6 \/ (op \div 8) % 8 = 6))   \* MOV r,M  MOV M,r
    \/ (op \in 128..191 /\ op % 8 = 6)              \* ADD M ... CMP M
    \/ (op >= 192 /\ op % 8 = 5)                     \* PUSH, CALL
    \/ (op >= 192 /\ op % 16 = 1)                    \* POP
    \/ (op >= 192 /\ op % 8 = 7)                     \* RST
    \/ op \in {201, 227}                             \* RET, XTHL

\* C29: for every opcode INSTRUCTION_TABLE records the true encoded length,
\* marks affects_flags for every instruction that changes a flag and
\* memory_access for every instruction that touches memory.
C29_TableFaithful ==
    Documented(tableByte) =>
        /\ decoded.length = TrueLength(tableByte)
        /\ ChangesFlags(tableByte) => decoded.affects_flags
        /\ TouchesMemory(tableByte) => decoded.memory_access

\* C30: for every byte v, PARITY_TABLE[v] is 1 exactly when v has an even
\* number of one bits.
C30_ParityEven ==
    /\ parityBit \in {0, 1}
    /\ parityBit = 1 <=> OnesCount(tableByte) % 2 = 0

\* The byte with all eight bits set was looked up: parity 1.
C30_Witness ==
    /\ tableByte = 255
    /\ parityBit = 1

\* C31: a successful write(a, v) changes what read returns at address a
\* only: for every other guest address b, read(b) returns after the write
\* what it returned before it.
C31_WriteFrame ==
    [][ (mbcOps' = mbcOps + 1 /\ mbcRet'.op = "write" /\ mbcRet'.err = "none") =>
            \A b \in MBCAddrs \ {mbcRet'.address} :
                MBCRead(mappings', banks', currentBank', b)
                    = MBCRead(mappings, banks, currentBank, b)
      ]_vars

\* C32: while tracing is enabled every Emulate8080p call appends exactly one
\* trace entry, and when the step executed an instruction the entry's pc and
\* opcode are the address and the byte of that instruction.
C32_StepTraced ==
    [][ (IsStep /\ tracingEnabled) =>
            /\ Len(trace_buffer') = Len(trace_buffer) + 1
            /\ SubSeq(trace_buffer', 1, Len(trace_buffer)) = trace_buffer
            /\ (~halted /\ ~(state.int_enable = 1 /\ interrupt = 1)) =>
                   LET entry == trace_buffer'[Len(trace_buffer')]
                   IN  /\ entry.pc = state.pc
                       /\ entry.opcode = MemAt(memory, state.pc)
      ]_vars

=============================================================================
